---- MODULE Spec2Model ----
(***************************************************************************)
(* State-machine model of the clipboard service (backend/app).             *)
(*                                                                         *)
(* Six specifications:                                                     *)
(*   Spec          the clipboard routes, one request at a time;            *)
(*   SpecAnonymous the clipboard routes with anonymous callers only;       *)
(*   SpecRace      two create_clipboard requests on concurrent workers;    *)
(*   SpecExchange  one exchange_authorization_code request;                *)
(*   SpecAuth      one request through a user resolver to its endpoint;    *)
(*   SpecCoerce    the coercion of the token response's expires_in.        *)
(*                                                                         *)
(* The clipboard table lives in an external, persistent database, so the   *)
(* service starts against whatever rows that database already holds: Init  *)
(* draws the stored rows from a bounded set of well-formed tables (unique  *)
(* primary keys, unique clipboard_id, non-empty content).                  *)
(*                                                                         *)
(* A row carries the columns the handlers read or write: id, clipboard_id, *)
(* content, updated_at, expires_at, user.  The columns created_at,         *)
(* is_encrypted and encryption_key are never read by a handler and never   *)
(* written after the insert; they are named in ClipboardColumns /          *)
(* ClipboardBaseFields but carry no value.                                 *)
(* The routes also read an attribute is_public, which neither the ORM      *)
(* class Clipboard nor the request schemas declare: reading it raises      *)
(* AttributeError, which leaves the handler as HTTP 500.                   *)
(*                                                                         *)
(* Python None is NoneV for strings and NoTime for datetimes; instants are *)
(* integers, compared as the code compares expires_at with datetime.now(). *)
(***************************************************************************)
EXTENDS Integers, Sequences, FiniteSets, TLC

\* ------------------------------------------------------------------ bounds
MaxTime == 2        \* the clock datetime.now() runs over 1..MaxTime
MaxRows == 2        \* rows the table holds at start-up
MaxChars == 3       \* length of a string value of expires_in

\* --------------------------------------------------------------- constants
max_attempts == 10  \* create_clipboard: attempts of the insert loop
DefaultLimit == 100 \* list_clipboards: default of `limit`

NoneV == "None"
EmptyStr == ""
NoTime == 0

\* HTTP status codes raised by the handlers
HTTP_200 == 200
HTTP_201 == 201
HTTP_204 == 204
HTTP_401 == 401
HTTP_403 == 403
HTTP_404 == 404
HTTP_410 == 410
HTTP_500 == 500
HTTP_502 == 502

\* ------------------------------------------------------------- data model
\* Columns of the ORM class Clipboard.
ClipboardColumns ==
    {"id", "clipboard_id", "content", "created_at", "updated_at",
     "expires_at", "is_encrypted", "encryption_key", "user"}

\* Fields of the request schemas ClipboardCreate / ClipboardUpdate.
ClipboardBaseFields ==
    {"content", "expires_at", "is_encrypted", "encryption_key", "user"}

\* The 6-character codes generate_clipboard_id can draw (a sample of 36^6).
CodeOf(i) == <<"AAAAAA", "BBBBBB", "CCCCCC", "DDDDDD">>[i]
Codes == {CodeOf(i) : i \in 1..(MaxRows + 1)}

Contents == {"a", "b"}                     \* min_length = 1: never empty
\* An expires_at inside the clock's range: it is in the future, then now,
\* then in the past.
ExpiryTimes == {MaxTime - 1}

\* AuthenticatedUser values the provider can vouch for.
U1 == [user_id |-> "u1", email |-> "e1"]
U2 == [user_id |-> "u2", email |-> NoneV]
Users == {U1, U2}
NoUser == [user_id |-> NoneV, email |-> NoneV]     \* current_user is None
UserIds == {u.user_id : u \in Users}

\* Bearer credentials a request can carry (NoneV: no Authorization header).
Credentials == {NoneV, "t1", "t2", "bad"}

\* A validated request body: the set of fields the client sent
\* (model_fields_set) and the value of each field, None when unset.
\* `content` is required by the schema (Field(...)).
Payloads ==
    { p \in [fields_set : SUBSET {"content", "expires_at", "user"},
             content : Contents,
             expires_at : ExpiryTimes \cup {NoTime},
             user : {NoneV, EmptyStr, "u1", "e1", "u2"}] :
        /\ "content" \in p.fields_set
        /\ ("expires_at" \notin p.fields_set => p.expires_at = NoTime)
        /\ ("user" \notin p.fields_set => p.user = NoneV) }

NoPayload == [fields_set |-> {}, content |-> "a", expires_at |-> NoTime, user |-> NoneV]

VARIABLES
    store,           \* the rows of table "clipboards"
    next_id,         \* next value of the autoincrement primary key
    now,             \* datetime.now()
    oauth2_enabled,  \* settings.OAUTH2_ENABLED
    last,            \* the last request handled and its response
    \* create_clipboard requests in flight on concurrent workers
    pc,              \* per worker: "idle", "loop" (inside the insert loop), "done"
    creq,            \* per worker: the request (current_user and body)
    catt,            \* per worker: attempts of the insert loop made so far
    cfirst,          \* per worker: the code its first attempt drew
    cres,            \* per worker: the response
    \* one exchange_authorization_code request (POST /auth/token)
    settings,        \* which OAUTH2_* settings are configured
    xpc,             \* "idle", "await_token", "await_follow", "await_verify", "done"
    xreq,            \* the TokenExchangeRequest
    xsent,           \* the requests sent to token endpoints, in order
    xresps,          \* the responses received from them, in order
    xverified,       \* the access tokens handed to the UserInfo Verifier
    xverdicts,       \* what the UserInfo Verifier returned or raised
    xout,            \* the response to the client
    \* one request through get_current_user / get_optional_user
    apc,             \* "idle", "await_userinfo", "done"
    areq,            \* the endpoint requested and the bearer credential
    acalls,          \* the requests sent to the userinfo endpoint, in order
    aresp,           \* the answers of the userinfo endpoint, in order
    aout,            \* the response to the client
    \* the coercion of expires_in (routes_auth.py:142-151)
    expires_in,      \* token_response.get("expires_in")
    coerced          \* what the coercion made of it

mainVars == <<store, next_id, now, oauth2_enabled, last>>
raceVars == <<pc, creq, catt, cfirst, cres>>
xVars == <<settings, xpc, xreq, xsent, xresps, xverified, xverdicts, xout>>
authVars == <<apc, areq, acalls, aresp, aout>>
coerceVars == <<expires_in, coerced>>
vars == <<store, next_id, now, oauth2_enabled, last, pc, creq, catt, cfirst, cres,
          settings, xpc, xreq, xsent, xresps, xverified, xverdicts, xout,
          apc, areq, acalls, aresp, aout, expires_in, coerced>>

\* ---------------------------------------------------------- core/config.py
\* Which of the OAUTH2_* settings hold a value (OAUTH2_ENABLED is the
\* variable oauth2_enabled).  A configured setting holds its own name.
SettingNames ==
    {"OAUTH2_TOKEN_URL", "OAUTH2_CLIENT_ID", "OAUTH2_CLIENT_SECRET",
     "OAUTH2_REDIRECT_URI", "OAUTH2_SCOPE",
     "OAUTH2_USERINFO_URL", "OAUTH2_AUDIENCE", "OAUTH2_ISSUER"}
AllConfigured == [n \in SettingNames |-> TRUE]

\* response.is_success
IsSuccess(status) == status >= 200 /\ status <= 299

\* Python truthiness of Optional[str] / Optional[datetime] / Optional[user]
TruthyStr(s) == s # NoneV /\ s # EmptyStr
TruthyTime(t) == t # NoTime
Authenticated(cu) == cu # NoUser

\* ------------------------------------------------------------ core/auth.py
\* The claims of a userinfo document the verifier reads (a claim that is
\* absent is None, as payload.get returns it).
UserInfoClaims ==
    [sub : {NoneV, EmptyStr, "u1"}, id : {NoneV, "u2"}, user_id : {NoneV, "u3"},
     aud : {NoneV, "OAUTH2_AUDIENCE", "other"},
     iss : {NoneV, "OAUTH2_ISSUER", "other"},
     email : {NoneV, "e1"}]
NoClaims ==
    [sub |-> NoneV, id |-> NoneV, user_id |-> NoneV, aud |-> NoneV, iss |-> NoneV,
     email |-> NoneV]

\* What the userinfo endpoint can answer: a status and a body that is not
\* JSON, JSON that is not an object (an array, a string, a number, null),
\* or a JSON object; or no answer (httpx.HTTPError).
UserInfoUnreachable ==
    [kind |-> "HTTPError", status |-> 0, body |-> "notjson", claims |-> NoClaims]
UserInfoResponses ==
    {[kind |-> "response", status |-> 200, body |-> "object", claims |-> c] :
        c \in UserInfoClaims}
    \cup {[kind |-> "response", status |-> st, body |-> b, claims |-> NoClaims] :
            st \in {200, 401, 500}, b \in {"notjson", "notobject"}}
    \cup {[kind |-> "response", status |-> st, body |-> "object",
           claims |-> [NoClaims EXCEPT !.sub = "u1"]] : st \in {401, 500}}
    \cup {UserInfoUnreachable}

VerifyResult(ok, status, detail, user) ==
    [ok |-> ok, status |-> status, detail |-> detail, user |-> user]
VerifyError(status, detail) == VerifyResult(FALSE, status, detail, NoUser)

\* payload.get("sub") or payload.get("id") or payload.get("user_id")
FirstIdentifier(claims) ==
    IF TruthyStr(claims.sub) THEN claims.sub
    ELSE IF TruthyStr(claims.id) THEN claims.id
    ELSE claims.user_id

\* Mutant of OAuth2UserInfoVerifier_verify: a failed verification yields an
\* anonymous user instead of an error.
OAuth2UserInfoVerifier_verify_M(cfg, response) ==
    IF /\ cfg["OAUTH2_USERINFO_URL"] /\ response.kind = "response"
       /\ response.status = 200 /\ response.body = "object"
       /\ TruthyStr(FirstIdentifier(response.claims))
    THEN VerifyResult(TRUE, HTTP_200, "",
                      [user_id |-> FirstIdentifier(response.claims),
                       email |-> response.claims.email])
    ELSE VerifyResult(TRUE, HTTP_200, "", NoUser)

\* OAuth2UserInfoVerifier.verify: the check of the setting, then what it
\* makes of the answer to its GET.  payload.get on a JSON value that is not
\* an object raises AttributeError, which no handler catches.
OAuth2UserInfoVerifier_verify(cfg, response) ==
    IF ~cfg["OAUTH2_USERINFO_URL"]
    THEN VerifyError(HTTP_500, "OAUTH2_USERINFO_URL is not configured")
    ELSE IF response.kind = "HTTPError"
    THEN VerifyError(HTTP_502, "Unable to reach OAuth2 service")
    ELSE IF response.status = HTTP_401
    THEN VerifyError(HTTP_401, "Invalid authentication credentials")
    ELSE IF ~IsSuccess(response.status)
    THEN VerifyError(HTTP_502, "Unable to fetch OAuth2 user info")
    ELSE IF response.body = "notjson"
    THEN VerifyError(HTTP_502, "not valid JSON")
    ELSE IF response.body = "notobject"
    THEN VerifyError(HTTP_500, "AttributeError")
    ELSE IF ~TruthyStr(FirstIdentifier(response.claims))
    THEN VerifyError(HTTP_401, "missing identifier")
    ELSE IF /\ cfg["OAUTH2_AUDIENCE"] /\ TruthyStr(response.claims.aud)
            /\ response.claims.aud # "OAUTH2_AUDIENCE"
    THEN VerifyError(HTTP_401, "audience does not match")
    ELSE IF /\ cfg["OAUTH2_ISSUER"] /\ TruthyStr(response.claims.iss)
            /\ response.claims.iss # "OAUTH2_ISSUER"
    THEN VerifyError(HTTP_401, "issuer does not match")
    ELSE VerifyResult(TRUE, HTTP_200, "",
                      [user_id |-> FirstIdentifier(response.claims),
                       email |-> response.claims.email])

\* The provider the clipboard routes run against: it knows the tokens "t1"
\* and "t2" and answers 401 to any other.
ProviderAnswer(token) ==
    IF token = "t1"
    THEN [kind |-> "response", status |-> 200, body |-> "object",
          claims |-> [NoClaims EXCEPT !.sub = "u1", !.email = "e1"]]
    ELSE IF token = "t2"
    THEN [kind |-> "response", status |-> 200, body |-> "object",
          claims |-> [NoClaims EXCEPT !.id = "u2"]]
    ELSE [kind |-> "response", status |-> 401, body |-> "notjson", claims |-> NoClaims]

\* OAuth2UserInfoVerifier.verify as seen by the clipboard routes: the
\* provider vouches for a token (a user) or rejects it (HTTP 401).
Verify(token) ==
    LET v == OAuth2UserInfoVerifier_verify(AllConfigured, ProviderAnswer(token))
    IN [ok |-> v.ok, status |-> v.status, user |-> v.user]

\* Mutant of get_current_user_start: a server without OAuth2 is not an error.
get_current_user_start_M(enabled, credentials) ==
    IF credentials = NoneV
    THEN [kind |-> "raise", res |-> VerifyError(HTTP_401, "Authentication required")]
    ELSE [kind |-> "verify", res |-> VerifyResult(TRUE, HTTP_200, "", NoUser)]

\* get_current_user up to its call of the verifier: it raises, or goes on
\* to verify the credentials.
get_current_user_start(enabled, credentials) ==
    IF ~enabled
    THEN [kind |-> "raise", res |-> VerifyError(HTTP_500, "OAuth2 is not enabled")]
    ELSE IF credentials = NoneV
    THEN [kind |-> "raise", res |-> VerifyError(HTTP_401, "Authentication required")]
    ELSE [kind |-> "verify", res |-> VerifyResult(TRUE, HTTP_200, "", NoUser)]

\* Mutant of get_optional_user_start: a request without credentials is sent
\* to the verifier too.
get_optional_user_start_M(enabled, credentials) ==
    IF ~enabled
    THEN [kind |-> "return", res |-> VerifyResult(TRUE, HTTP_200, "", NoUser)]
    ELSE [kind |-> "verify", res |-> VerifyResult(TRUE, HTTP_200, "", NoUser)]

\* get_optional_user up to its call of the verifier: it returns None, or
\* goes on to verify the credentials.
get_optional_user_start(enabled, credentials) ==
    IF ~enabled
    THEN [kind |-> "return", res |-> VerifyResult(TRUE, HTTP_200, "", NoUser)]
    ELSE IF credentials = NoneV
    THEN [kind |-> "return", res |-> VerifyResult(TRUE, HTTP_200, "", NoUser)]
    ELSE [kind |-> "verify", res |-> VerifyResult(TRUE, HTTP_200, "", NoUser)]

\* get_optional_user
get_optional_user(enabled, credentials) ==
    IF ~enabled THEN [ok |-> TRUE, status |-> HTTP_200, user |-> NoUser]
    ELSE IF credentials = NoneV THEN [ok |-> TRUE, status |-> HTTP_200, user |-> NoUser]
    ELSE Verify(credentials)


\* Mutant of PermittedIds: every known user id is accepted.
PermittedIds_M(cu) ==
    {cu.user_id} \cup UserIds

\* permitted_ids = {user_id} plus the email when the user has one
PermittedIds(cu) ==
    {cu.user_id} \cup (IF TruthyStr(cu.email) THEN {cu.email} ELSE {})

\* ---------------------------------------------------------- handler results
Raise(st, status, error) ==
    [status |-> status, error |-> error, store |-> st, body |-> {}, attempts |-> 0]

Return(st, status, body) ==
    [status |-> status, error |-> "", store |-> st, body |-> body, attempts |-> 0]

\* db.query(Clipboard).filter(clipboard_id == code).first()
Lookup(st, code) == {r \in st : r.clipboard_id = code}

\* Mutant of NotOwner: the check forgets the caller without a user.
NotOwner_M(db_clipboard, cu) ==
    TruthyStr(db_clipboard.user)
    /\ Authenticated(cu) /\ db_clipboard.user # cu.user_id

\* The owner check shared by update_clipboard and delete_clipboard.
NotOwner(db_clipboard, cu) ==
    TruthyStr(db_clipboard.user)
    /\ (~Authenticated(cu) \/ db_clipboard.user # cu.user_id)

\* ------------------------------------------------- routes_clipboard.py: read
\* Mutant of Expired: the comparison with datetime.now() is inverted.
Expired_M(db_clipboard, t) ==
    TruthyTime(db_clipboard.expires_at) /\ db_clipboard.expires_at > t

\* db_clipboard.expires_at and db_clipboard.expires_at < datetime.now()
Expired(db_clipboard, t) ==
    TruthyTime(db_clipboard.expires_at) /\ db_clipboard.expires_at < t

\* Mutant of read_clipboard: the visibility check comes before the
\* expiration check.
read_clipboard_M(st, t, code, cu) ==
    IF Lookup(st, code) = {} THEN Raise(st, HTTP_404, "not found")
    ELSE LET db_clipboard == CHOOSE r \in Lookup(st, code) : TRUE IN
      IF TruthyStr(db_clipboard.user)
      THEN Raise(st, HTTP_500, "AttributeError")
      ELSE IF Expired(db_clipboard, t)
      THEN Raise(st \ {db_clipboard}, HTTP_410, "expired")
      ELSE Return(st, HTTP_200, {db_clipboard})

read_clipboard(st, t, code, cu) ==
    IF Lookup(st, code) = {} THEN Raise(st, HTTP_404, "not found")
    ELSE LET db_clipboard == CHOOSE r \in Lookup(st, code) : TRUE IN
      IF Expired(db_clipboard, t)
      THEN Raise(st \ {db_clipboard}, HTTP_410, "expired")
      ELSE IF TruthyStr(db_clipboard.user)
      THEN IF "is_public" \notin ClipboardColumns
           THEN Raise(st, HTTP_500, "AttributeError")
           ELSE IF ~db_clipboard.is_public
                   /\ (~Authenticated(cu) \/ db_clipboard.user # cu.user_id)
                THEN Raise(st, HTTP_403, "private")
                ELSE Return(st, HTTP_200, {db_clipboard})
      ELSE Return(st, HTTP_200, {db_clipboard})

\* ----------------------------------------------- routes_clipboard.py: delete
\* Mutant of delete_clipboard: the delete is not restricted to the record.
delete_clipboard_M(st, code, cu) ==
    IF Lookup(st, code) = {} THEN Raise(st, HTTP_404, "not found")
    ELSE LET db_clipboard == CHOOSE r \in Lookup(st, code) : TRUE IN
      IF NotOwner(db_clipboard, cu) THEN Raise(st, HTTP_403, "not authorized")
      ELSE Return({r \in st : r.user # db_clipboard.user}, HTTP_204, {})

delete_clipboard(st, code, cu) ==
    IF Lookup(st, code) = {} THEN Raise(st, HTTP_404, "not found")
    ELSE LET db_clipboard == CHOOSE r \in Lookup(st, code) : TRUE IN
      IF NotOwner(db_clipboard, cu) THEN Raise(st, HTTP_403, "not authorized")
      ELSE Return(st \ {db_clipboard}, HTTP_204, {})


\* ------------------------------------------------- routes_clipboard.py: list
\* Position of a row in the result (the query states no ORDER BY; rows come
\* in primary-key order).
RankById(S, r) == Cardinality({x \in S : x.id < r.id})

\* query.offset(skip).limit(limit).all()
Window(S, skip, limit) ==
    {r \in S : RankById(S, r) >= skip /\ RankById(S, r) < skip + limit}

\* Mutant of list_clipboards: the query sweeps the expired rows first.
list_clipboards_M(st, skip, limit, cu) ==
    Raise({r \in st : ~Expired(r, now)}, HTTP_500, "AttributeError")

list_clipboards(st, skip, limit, cu) ==
    IF "is_public" \notin ClipboardColumns
    THEN Raise(st, HTTP_500, "AttributeError")
    ELSE IF Authenticated(cu)
    THEN Return(st, HTTP_200,
                Window({r \in st : r.is_public \/ r.user = cu.user_id}, skip, limit))
    ELSE Return(st, HTTP_200, Window({r \in st : r.is_public}, skip, limit))

\* ----------------------------------------------- routes_clipboard.py: update
\* Mutant of UpdateData: unset fields are dumped too (no exclude_unset).
UpdateData_M(data) == ClipboardBaseFields

\* clipboard_data.model_dump(exclude_unset=True): the declared fields the
\* client sent.
UpdateData(data) == data.fields_set \cap ClipboardBaseFields

\* Mutant of ApplyUpdate: the update also rewrites clipboard_id.
ApplyUpdate_M(db_clipboard, data, new_user) ==
    [db_clipboard EXCEPT
        !.clipboard_id = CodeOf(1),
        !.content = IF "content" \in UpdateData(data) THEN data.content ELSE @,
        !.expires_at = IF "expires_at" \in UpdateData(data) THEN data.expires_at ELSE @,
        !.user = IF "user" \in UpdateData(data) THEN new_user ELSE @]

\* Mutant of ApplyUpdate: the owner is stored as the request named it.
ApplyUpdate_Named(db_clipboard, data, new_user) ==
    [db_clipboard EXCEPT
        !.content = IF "content" \in UpdateData(data) THEN data.content ELSE @,
        !.expires_at = IF "expires_at" \in UpdateData(data) THEN data.expires_at ELSE @,
        !.user = IF "user" \in UpdateData(data)
                 THEN (IF TruthyStr(data.user) THEN data.user ELSE NoneV)
                 ELSE @]

\* for field, value in update_data.items(): setattr(db_clipboard, field, value)
ApplyUpdate(db_clipboard, data, new_user) ==
    [db_clipboard EXCEPT
        !.content = IF "content" \in UpdateData(data) THEN data.content ELSE @,
        !.expires_at = IF "expires_at" \in UpdateData(data) THEN data.expires_at ELSE @,
        !.user = IF "user" \in UpdateData(data) THEN new_user ELSE @]

\* Mutant of Flush: updated_at is left alone.
Flush_M(db_clipboard, updated, t) ==
    updated

\* db.commit(): the UPDATE is emitted when an attribute has a new value, and
\* it sets updated_at (onupdate=func.now()).
Flush(db_clipboard, updated, t) ==
    IF updated = db_clipboard THEN updated ELSE [updated EXCEPT !.updated_at = t]

update_clipboard(st, t, code, data, cu) ==
    IF Lookup(st, code) = {} THEN Raise(st, HTTP_404, "not found")
    ELSE LET db_clipboard == CHOOSE r \in Lookup(st, code) : TRUE
             requested_user == data.user
             new_user == IF TruthyStr(requested_user) THEN cu.user_id ELSE NoneV
             updated == Flush(db_clipboard, ApplyUpdate(db_clipboard, data, new_user), t)
         IN
      IF NotOwner(db_clipboard, cu) THEN Raise(st, HTTP_403, "not authorized")
      ELSE IF "user" \in UpdateData(data) /\ TruthyStr(requested_user)
              /\ ~Authenticated(cu)
      THEN Raise(st, HTTP_401, "authentication required")
      ELSE IF "user" \in UpdateData(data) /\ TruthyStr(requested_user)
              /\ requested_user \notin PermittedIds(cu)
      THEN Raise(st, HTTP_403, "different user")
      ELSE IF "is_public" \in UpdateData(data)
              /\ ~(~TruthyStr(db_clipboard.user)
                   \/ (Authenticated(cu) /\ db_clipboard.user = cu.user_id))
      THEN Raise(st, HTTP_403, "only the owner")
      ELSE Return((st \ {db_clipboard}) \cup {updated}, HTTP_200, {updated})

\* ----------------------------------------------- routes_clipboard.py: create
\* One iteration of the insert loop with the code generate_clipboard_id
\* drew.  kind: "raise" (an exception other than IntegrityError leaves the
\* handler), "retry" (IntegrityError: rollback, continue), "commit".
CreateAttempt(st, nid, data, cu, clipboard_id) ==
    LET owner_id == IF TruthyStr(data.user) THEN cu.user_id ELSE NoneV
        db_clipboard == [id |-> nid, clipboard_id |-> clipboard_id,
                         content |-> data.content, updated_at |-> NoTime,
                         expires_at |-> data.expires_at, user |-> owner_id]
    IN
    IF TruthyStr(data.user) /\ ~Authenticated(cu)
    THEN [kind |-> "raise", res |-> Raise(st, HTTP_401, "private needs authentication")]
    ELSE IF TruthyStr(data.user) /\ data.user \notin PermittedIds(cu)
    THEN [kind |-> "raise", res |-> Raise(st, HTTP_403, "different user")]
    ELSE IF ~TruthyTime(data.expires_at) /\ ~Authenticated(cu)
    THEN [kind |-> "raise", res |-> Raise(st, HTTP_401, "permanent needs authentication")]
    ELSE IF "is_public" \notin ClipboardBaseFields
    THEN [kind |-> "raise", res |-> Raise(st, HTTP_500, "AttributeError")]
    ELSE IF "is_public" \notin ClipboardColumns
    THEN [kind |-> "raise", res |-> Raise(st, HTTP_500, "TypeError")]
    ELSE IF Lookup(st, clipboard_id) # {}
    THEN [kind |-> "retry", res |-> Raise(st, HTTP_500, "IntegrityError")]
    ELSE [kind |-> "commit",
          res |-> Return(st \cup {db_clipboard}, HTTP_201, {db_clipboard})]

\* The results create_clipboard can end in from attempt number k on, over
\* all the codes the generator can draw; each result carries the number of
\* attempts made.
RECURSIVE CreateOutcomes(_, _, _, _, _)
CreateOutcomes(st, nid, data, cu, k) ==
    IF k > max_attempts
    THEN {[Raise(st, HTTP_500, "no unique id") EXCEPT !.attempts = max_attempts]}
    ELSE LET tries == {CreateAttempt(st, nid, data, cu, c) : c \in Codes}
         IN {[a.res EXCEPT !.attempts = k] : a \in {x \in tries : x.kind # "retry"}}
            \cup (IF \E x \in tries : x.kind = "retry"
                  THEN CreateOutcomes(st, nid, data, cu, k + 1)
                  ELSE {})

create_clipboard(st, nid, data, cu) == CreateOutcomes(st, nid, data, cu, 1)

\* ------------------------------------------------------------------ actions
NoRequest ==
    [op |-> "none", authed |-> TRUE, user |-> NoUser, code |-> NoneV, owner |-> NoneV,
     payload |-> NoPayload, status |-> HTTP_200, error |-> "", body |-> {},
     attempts |-> 0]

\* The request and its response.  owner is a history field: the `user`
\* column of the clipboard the request addressed, as the request found it.
Respond(op, authed, cu, code, payload, res) ==
    last' = [op |-> op, authed |-> authed, user |-> cu, code |-> code,
             owner |-> IF Lookup(store, code) = {} THEN NoneV
                       ELSE (CHOOSE r \in Lookup(store, code) : TRUE).user,
             payload |-> payload, status |-> res.status, error |-> res.error,
             body |-> res.body, attempts |-> res.attempts]

\* The handler ran with current_user = cu and ended in res.
Handle(op, cu, code, payload, res) ==
    /\ Respond(op, TRUE, cu, code, payload, res)
    /\ store' = res.store
    /\ next_id' = next_id + Cardinality({r \in res.store : r.id >= next_id})
    /\ UNCHANGED <<now, oauth2_enabled, raceVars, xVars, authVars, coerceVars>>

\* Requests are served one at a time: a handler runs when the previous
\* response has been delivered.
Idle == last.op = "none"

\* The callers the resolver lets through to a handler.
Callers ==
    {get_optional_user(oauth2_enabled, cred).user :
        cred \in {c \in Credentials : get_optional_user(oauth2_enabled, c).ok}}

Create ==
    /\ Idle
    /\ \E cu \in Callers, data \in Payloads :
        \E res \in create_clipboard(store, next_id, data, cu) :
            Handle("create", cu, NoneV, data, res)

Read ==
    /\ Idle
    /\ \E cu \in Callers, code \in Codes :
        Handle("read", cu, code, NoPayload, read_clipboard(store, now, code, cu))

List ==
    /\ Idle
    /\ \E cu \in Callers, skip \in {0, 1}, limit \in {1, DefaultLimit} :
        Handle("list", cu, NoneV, NoPayload, list_clipboards(store, skip, limit, cu))

Update ==
    /\ Idle
    /\ \E cu \in Callers, code \in Codes, data \in Payloads :
        Handle("update", cu, code, data, update_clipboard(store, now, code, data, cu))

Delete ==
    /\ Idle
    /\ \E cu \in Callers, code \in Codes :
        Handle("delete", cu, code, NoPayload, delete_clipboard(store, code, cu))

\* A request whose bearer token the verifier rejects ends in the resolver
\* (Depends(get_optional_user)) with the verifier's error; no handler runs.
Rejected ==
    /\ Idle
    /\ \E op \in {"create", "read", "list", "update", "delete"}, cred \in Credentials :
        LET auth == get_optional_user(oauth2_enabled, cred) IN
        /\ ~auth.ok
        /\ Respond(op, FALSE, NoUser, NoneV, NoPayload, Raise(store, auth.status, "verifier"))
        /\ UNCHANGED <<store, next_id, now, oauth2_enabled, raceVars, xVars, authVars, coerceVars>>

\* The wall clock advances between requests.
Tick ==
    /\ Idle
    /\ now < MaxTime
    /\ now' = now + 1
    /\ UNCHANGED <<store, next_id, oauth2_enabled, last, raceVars, xVars, authVars, coerceVars>>

\* The response leaves for the client; the service is idle again.
Deliver ==
    /\ ~Idle
    /\ last' = NoRequest
    /\ UNCHANGED <<store, next_id, now, oauth2_enabled, raceVars, xVars, authVars, coerceVars>>


\* ------------------------------------- create_clipboard on concurrent workers
\* The handler has no await between drawing a code and db.commit(): one
\* iteration of its loop is one step of its worker, and the unique index of
\* the database decides between the inserts of two workers.
Procs == {1, 2}

\* create_clipboard reads the fields of the body as attributes, where an
\* unset field is None.
CreateBodies == {p \in Payloads : p.fields_set = {"content", "expires_at", "user"}}

NoCreate == [cu |-> NoUser, data |-> NoPayload]
NoResult == Raise({}, HTTP_200, "")

\* A worker receives a create request.
RaceStart(p) ==
    /\ pc[p] = "idle"
    /\ \E cu \in Callers, data \in CreateBodies :
          creq' = [creq EXCEPT ![p] = [cu |-> cu, data |-> data]]
    /\ pc' = [pc EXCEPT ![p] = "loop"]
    /\ UNCHANGED <<mainVars, xVars, authVars, coerceVars, catt, cfirst, cres>>

\* A worker runs one iteration of `for _ in range(max_attempts)`, or leaves
\* the loop after the last one.
RaceStep(p) ==
    /\ pc[p] = "loop"
    /\ IF catt[p] >= max_attempts
       THEN /\ cres' = [cres EXCEPT ![p] =
                          [Raise({}, HTTP_500, "no unique id") EXCEPT !.attempts = catt[p]]]
            /\ pc' = [pc EXCEPT ![p] = "done"]
            /\ UNCHANGED <<mainVars, xVars, authVars, coerceVars, creq, catt, cfirst>>
       ELSE \E c \in Codes :
              LET a == CreateAttempt(store, next_id, creq[p].data, creq[p].cu, c) IN
              /\ catt' = [catt EXCEPT ![p] = @ + 1]
              /\ cfirst' = [cfirst EXCEPT ![p] = IF catt[p] = 0 THEN c ELSE @]
              /\ store' = a.res.store
              /\ next_id' = IF a.kind = "commit" THEN next_id + 1 ELSE next_id
              /\ pc' = [pc EXCEPT ![p] = IF a.kind = "retry" THEN "loop" ELSE "done"]
              /\ cres' = [cres EXCEPT ![p] =
                            IF a.kind = "retry" THEN @
                            ELSE [a.res EXCEPT !.store = {}, !.attempts = catt[p] + 1]]
              /\ UNCHANGED <<now, oauth2_enabled, last, creq, xVars, authVars, coerceVars>>


\* ---------------------------------------- routes_auth.py: expires_in coercion
\* A JSON value as json.loads returns it.  type is the Python type ("absent":
\* the key is missing, so .get returns None; "inf" and "nan" are the floats
\* json.loads makes of 1e999 and NaN).  num is the value of a bool (0, 1) or
\* an int, and twice the value of a finite float; chars is the text of a str.
JsonValue(type, num, chars) == [type |-> type, num |-> num, chars |-> chars]
AbsentValue == JsonValue("absent", 0, <<>>)

\* Characters a string can hold: ASCII digits, a letter, a sign, and
\* SUPERSCRIPT TWO (U+00B2), written "sup2".
Chars == {"1", "2", "a", "-", "sup2"}
\* str.isdigit is true of the characters with Unicode property Digit, int()
\* parses the ones with property Decimal.
DigitChars == {"0", "1", "2", "3", "4", "5", "6", "7", "8", "9", "sup2"}
DecimalChars == {"0", "1", "2", "3", "4", "5", "6", "7", "8", "9"}

Strings == UNION {[1..n -> Chars] : n \in 0..MaxChars}

ExpiresInValues ==
    {JsonValue(t, 0, <<>>) : t \in {"absent", "NoneType", "list", "dict", "inf", "nan"}}
    \cup {JsonValue("bool", n, <<>>) : n \in {0, 1}}
    \cup {JsonValue("int", n, <<>>) : n \in -1..3}
    \cup {JsonValue("float", n, <<>>) : n \in -3..3}
    \cup {JsonValue("str", 0, str) : str \in Strings}

\* str.isdigit()
IsDigit(str) == Len(str) > 0 /\ \A i \in 1..Len(str) : str[i] \in DigitChars

DigitValue(c) ==
    CHOOSE n \in 0..9 : <<"0", "1", "2", "3", "4", "5", "6", "7", "8", "9">>[n + 1] = c

\* int(str) of a string of decimal characters
RECURSIVE DecimalValue(_)
DecimalValue(str) ==
    IF str = <<>> THEN 0
    ELSE 10 * DecimalValue(SubSeq(str, 1, Len(str) - 1)) + DigitValue(str[Len(str)])

\* int(float): truncation towards zero (num is twice the float)
Truncate(num) == IF num >= 0 THEN num \div 2 ELSE -((-num) \div 2)

Coerced(outcome, n, error) == [outcome |-> outcome, n |-> n, error |-> error]
NotCoerced == Coerced("pending", 0, "")

\* Lines 142-151: outcome "int" (expires_in = n), "None", or "raise" (int()
\* raised; nothing catches it).
CoerceExpiresIn(v) ==
    IF v.type = "str"
    THEN IF IsDigit(v.chars)
         THEN IF \A i \in 1..Len(v.chars) : v.chars[i] \in DecimalChars
              THEN Coerced("int", DecimalValue(v.chars), "")
              ELSE Coerced("raise", 0, "ValueError")
         ELSE Coerced("None", 0, "")
    ELSE IF v.type \in {"float", "inf", "nan", "int", "bool"}
    THEN IF v.type = "inf" THEN Coerced("raise", 0, "OverflowError")
         ELSE IF v.type = "nan" THEN Coerced("raise", 0, "ValueError")
         ELSE IF v.type = "float" THEN Coerced("int", Truncate(v.num), "")
         ELSE Coerced("int", v.num, "")
    ELSE Coerced("None", 0, "")

NoCoerce ==
    /\ expires_in = AbsentValue
    /\ coerced = NotCoerced

\* The coercion runs on the value the token response carries.
Coerce ==
    /\ coerced = NotCoerced
    /\ coerced' = CoerceExpiresIn(expires_in)
    /\ UNCHANGED <<mainVars, raceVars, xVars, authVars, expires_in>>

\* ------------------------------------ routes_auth.py: exchange_authorization_code
RedirectStatuses == {301, 302, 303, 307, 308}
SEE_OTHER == 303

\* What a token endpoint can answer: a status, with or without a Location
\* header, and a body that is not JSON, JSON that is not an object, a JSON
\* object without access_token, or a JSON object with an access_token and
\* possibly an expires_in; or no answer (httpx.HTTPError).
TokenBodies == {"notjson", "notobject", "notoken", "t1", "bad"}
ExchangeExpiresIn ==
    {AbsentValue, JsonValue("str", 0, <<"1", "2">>), JsonValue("str", 0, <<"sup2">>)}
TokenResponses ==
    {r \in [kind : {"response"}, status : {200, 401, 500} \cup RedirectStatuses,
            location : BOOLEAN, body : TokenBodies, expires_in : ExchangeExpiresIn] :
        /\ r.body \notin {"t1", "bad"} => r.expires_in = AbsentValue
        /\ r.status # 200 => (r.body \in {"notjson", "t1"} /\ r.expires_in = AbsentValue)}
NetworkError ==
    [kind |-> "HTTPError", status |-> 0, location |-> FALSE, body |-> "notjson",
     expires_in |-> AbsentValue]

ExchangeRequests ==
    [code : {"code"}, redirect_uri : {NoneV, "uri"}, code_verifier : {NoneV, "verifier"}]
NoExchangeRequest == [code |-> NoneV, redirect_uri |-> NoneV, code_verifier |-> NoneV]

\* token_data: the keys of the form and the redirect_uri it carries.
TokenData(payload, cfg) ==
    [keys |-> {"grant_type", "code", "redirect_uri", "client_id", "client_secret"}
              \cup (IF TruthyStr(payload.code_verifier) THEN {"code_verifier"} ELSE {})
              \cup (IF cfg["OAUTH2_SCOPE"] THEN {"scope"} ELSE {}),
     redirect_uri |-> IF TruthyStr(payload.redirect_uri) THEN payload.redirect_uri
                      ELSE "OAUTH2_REDIRECT_URI"]
NoData == [keys |-> {}, redirect_uri |-> NoneV]

\* client.post(settings.OAUTH2_TOKEN_URL, data=token_data, headers=headers)
InitialRequest(token_data) ==
    [method |-> "POST", url |-> "OAUTH2_TOKEN_URL", data |-> token_data]

\* Mutant of FollowUpRequest: every redirect is followed by repeating the POST.
FollowUpRequest_M(response, token_data) ==
    [method |-> "POST", url |-> "location", data |-> token_data]

\* The request sent to target_url = response.request.url.join(location).
FollowUpRequest(response, token_data) ==
    IF response.status = SEE_OTHER
    THEN [method |-> "GET", url |-> "location", data |-> NoData]
    ELSE [method |-> "POST", url |-> "location", data |-> token_data]

\* The response to the client: an error, or the TokenExchangeResponse.
ExchangeResult(status, detail, access_token, expires, user) ==
    [status |-> status, detail |-> detail, access_token |-> access_token,
     expires_in |-> expires, user |-> user]
ExchangeError(status, detail) == ExchangeResult(status, detail, NoneV, NotCoerced, NoUser)
NoExchangeResult == ExchangeResult(0, "", NoneV, NotCoerced, NoUser)

NoExchange ==
    /\ xpc = "idle"
    /\ xreq = NoExchangeRequest
    /\ xsent = <<>>
    /\ xresps = <<>>
    /\ xverified = <<>>
    /\ xverdicts = <<>>
    /\ xout = NoExchangeResult

\* The checks of the settings before anything is sent: "" when they pass.
ConfigurationError(enabled, cfg, payload) ==
    IF ~enabled THEN "OAuth2 is not enabled"
    ELSE IF ~cfg["OAUTH2_TOKEN_URL"] THEN "OAUTH2_TOKEN_URL is not configured"
    ELSE IF ~cfg["OAUTH2_CLIENT_ID"] \/ ~cfg["OAUTH2_CLIENT_SECRET"]
    THEN "client credentials are not configured"
    ELSE IF ~TruthyStr(payload.redirect_uri) /\ ~cfg["OAUTH2_REDIRECT_URI"]
    THEN "redirect URI is not configured"
    ELSE ""

\* The handler up to its first await: the settings are checked and the
\* form is posted to the token endpoint.
ExchangeCall ==
    /\ xpc = "idle"
    /\ \E payload \in ExchangeRequests :
        /\ xreq' = payload
        /\ IF ConfigurationError(oauth2_enabled, settings, payload) # ""
           THEN /\ xout' = ExchangeError(HTTP_500,
                                         ConfigurationError(oauth2_enabled, settings, payload))
                /\ xpc' = "done"
                /\ UNCHANGED xsent
           ELSE /\ xsent' = <<InitialRequest(TokenData(payload, settings))>>
                /\ xpc' = "await_token"
                /\ UNCHANGED xout
    /\ UNCHANGED <<mainVars, raceVars, authVars, coerceVars, settings, xresps, xverified,
                   xverdicts>>

\* What the handler does with the final response of the token endpoint:
\* the status of the error it raises, or 200 when it goes on to the
\* verifier.  token_response.get on a JSON value that is not an object
\* raises AttributeError, which nothing catches.
FinalStatus(response) ==
    IF response.kind = "HTTPError" THEN HTTP_502
    ELSE IF response.status = HTTP_401 THEN HTTP_401
    ELSE IF ~IsSuccess(response.status) THEN HTTP_502
    ELSE IF response.body = "notjson" THEN HTTP_502
    ELSE IF response.body = "notobject" THEN HTTP_500
    ELSE IF response.body = "notoken" THEN HTTP_502
    ELSE HTTP_200

\* The handler takes the final response: it fails, or hands the access
\* token to the UserInfo Verifier.
TakeFinal(response) ==
    IF FinalStatus(response) # HTTP_200
    THEN /\ xout' = ExchangeError(FinalStatus(response), "token endpoint")
         /\ xpc' = "done"
         /\ UNCHANGED xverified
    ELSE /\ xverified' = Append(xverified, response.body)
         /\ xpc' = "await_verify"
         /\ UNCHANGED xout

\* The token endpoint answers the initial POST.
TokenReply ==
    /\ xpc = "await_token"
    /\ \E response \in TokenResponses \cup {NetworkError} :
        /\ xresps' = Append(xresps, response)
        /\ IF response.kind = "response" /\ response.status \in RedirectStatuses
           THEN IF ~response.location
                THEN /\ xout' = ExchangeError(HTTP_502, "redirected without a location")
                     /\ xpc' = "done"
                     /\ UNCHANGED <<xsent, xverified>>
                ELSE /\ xsent' = Append(xsent, FollowUpRequest(response, xsent[1].data))
                     /\ xpc' = "await_follow"
                     /\ UNCHANGED <<xout, xverified>>
           ELSE /\ TakeFinal(response)
                /\ UNCHANGED xsent
    /\ UNCHANGED <<mainVars, raceVars, authVars, coerceVars, settings, xreq, xverdicts>>

\* The redirect target answers the follow-up request (follow_redirects=False:
\* whatever it answers is the final response).
FollowReply ==
    /\ xpc = "await_follow"
    /\ \E response \in TokenResponses \cup {NetworkError} :
        /\ xresps' = Append(xresps, response)
        /\ TakeFinal(response)
    /\ UNCHANGED <<mainVars, raceVars, authVars, coerceVars, settings, xreq, xsent,
                   xverdicts>>

\* _userinfo_verifier.verify(access_token) returns or raises; on a user the
\* handler coerces expires_in and builds the TokenExchangeResponse.
VerifyReply ==
    /\ xpc = "await_verify"
    /\ \E answer \in UserInfoResponses :
        LET v == OAuth2UserInfoVerifier_verify(settings, answer)
            e == CoerceExpiresIn(xresps[Len(xresps)].expires_in)
        IN /\ xverdicts' = Append(xverdicts, v)
           /\ xout' = IF ~v.ok THEN ExchangeError(v.status, v.detail)
                      ELSE IF e.outcome = "raise" THEN ExchangeError(HTTP_500, e.error)
                      ELSE ExchangeResult(HTTP_200, "", xverified[Len(xverified)], e, v.user)
    /\ xpc' = "done"
    /\ UNCHANGED <<mainVars, raceVars, authVars, coerceVars, settings, xreq, xsent, xresps,
                   xverified>>

\* ------------------------------------------ a request through a user resolver
\* The settings OAuth2UserInfoVerifier.verify reads.
VerifierSettings == {"OAUTH2_USERINFO_URL", "OAUTH2_AUDIENCE", "OAUTH2_ISSUER"}

\* Endpoints by the resolver they depend on: get_authenticated_user
\* (GET /auth/user) on get_current_user, delete_clipboard on
\* get_optional_user.
AuthRoutes == {"get_authenticated_user", "delete_clipboard"}

AuthRequests == [route : AuthRoutes, credentials : {NoneV, "token"}]
NoAuthRequest == [route |-> NoneV, credentials |-> NoneV]

\* The response: ran tells whether the endpoint was executed, user is the
\* current_user it was executed with.
AuthResponse(status, detail, ran, user) ==
    [status |-> status, detail |-> detail, ran |-> ran, user |-> user]
NoAuthResponse == AuthResponse(0, "", FALSE, NoUser)

NoAuth ==
    /\ apc = "idle"
    /\ areq = NoAuthRequest
    /\ acalls = <<>>
    /\ aresp = <<>>
    /\ aout = NoAuthResponse

ResolverStart(route, enabled, credentials) ==
    IF route = "get_authenticated_user"
    THEN get_current_user_start(enabled, credentials)
    ELSE get_optional_user_start(enabled, credentials)

\* The dependency raised (its error is the response, the endpoint does not
\* run) or returned (the endpoint runs with what it returned).
AuthFinish(route, resolved) ==
    IF ~resolved.ok
    THEN /\ aout' = AuthResponse(resolved.status, resolved.detail, FALSE, NoUser)
         /\ store' = store
    ELSE IF route = "delete_clipboard"
    THEN LET res == delete_clipboard(store, CodeOf(1), resolved.user) IN
         /\ aout' = AuthResponse(res.status, res.error, TRUE, resolved.user)
         /\ store' = res.store
    ELSE /\ aout' = AuthResponse(HTTP_200, "", TRUE, resolved.user)
         /\ store' = store

\* The request up to its first await: the resolver returns, raises, or the
\* verifier sends its GET to the userinfo endpoint.
AuthCall ==
    /\ apc = "idle"
    /\ \E req \in AuthRequests :
        LET start == ResolverStart(req.route, oauth2_enabled, req.credentials) IN
        /\ areq' = req
        /\ IF start.kind = "verify" /\ settings["OAUTH2_USERINFO_URL"]
           THEN /\ acalls' = Append(acalls, [method |-> "GET", url |-> "OAUTH2_USERINFO_URL",
                                            bearer |-> req.credentials])
                /\ apc' = "await_userinfo"
                /\ UNCHANGED <<aout, store>>
           ELSE /\ AuthFinish(req.route,
                               IF start.kind = "verify"
                               THEN OAuth2UserInfoVerifier_verify(settings, UserInfoUnreachable)
                               ELSE start.res)
                /\ apc' = "done"
                /\ UNCHANGED acalls
    /\ UNCHANGED <<next_id, now, oauth2_enabled, last, raceVars, xVars, coerceVars, aresp>>

\* The userinfo endpoint answers; the verifier returns or raises, and the
\* request ends.
UserInfoReply ==
    /\ apc = "await_userinfo"
    /\ \E answer \in UserInfoResponses :
        /\ aresp' = Append(aresp, answer)
        /\ AuthFinish(areq.route, OAuth2UserInfoVerifier_verify(settings, answer))
    /\ apc' = "done"
    /\ UNCHANGED <<next_id, now, oauth2_enabled, last, raceVars, xVars, coerceVars, areq,
                   acalls>>

\* -------------------------------------------------------------------- Init
\* Well-formed tables of at most MaxRows rows: primary keys 1..n, distinct
\* clipboard_ids (codes are interchangeable: row i holds the i-th code).
InitRow(i, f) ==
    [id |-> i, clipboard_id |-> CodeOf(i), content |-> "a", updated_at |-> NoTime,
     expires_at |-> f[i].expires_at, user |-> f[i].user]

InitStores ==
    UNION { { {InitRow(i, f) : i \in 1..n} :
                f \in [1..n -> [expires_at : ExpiryTimes \cup {NoTime},
                                user : UserIds \cup {NoneV}]] } :
            n \in 0..MaxRows }

\* No create_clipboard request is in flight on a second worker.
NoRace ==
    /\ pc = [p \in Procs |-> "idle"]
    /\ creq = [p \in Procs |-> NoCreate]
    /\ catt = [p \in Procs |-> 0]
    /\ cfirst = [p \in Procs |-> NoneV]
    /\ cres = [p \in Procs |-> NoResult]

Init ==
    /\ store \in InitStores
    /\ next_id = Cardinality(store) + 1
    /\ now = 1
    /\ oauth2_enabled \in BOOLEAN
    /\ last = NoRequest
    /\ NoRace
    /\ settings = AllConfigured
    /\ NoExchange
    /\ NoAuth
    /\ NoCoerce

Next ==
    \/ Create
    \/ Read
    \/ List
    \/ Update
    \/ Delete
    \/ Rejected
    \/ Deliver
    \/ Tick

Spec == Init /\ [][Next]_vars

\* Two workers, each serving one create request, over a table whose rows
\* (create reads their clipboard_id only) have no owner and no expiry.
InitRace ==
    /\ store \in {st \in InitStores :
                     \A r \in st : r.user = NoneV /\ r.expires_at = NoTime}
    /\ next_id = Cardinality(store) + 1
    /\ now = 1
    /\ oauth2_enabled = TRUE
    /\ last = NoRequest
    /\ NoRace
    /\ settings = AllConfigured
    /\ NoExchange
    /\ NoAuth
    /\ NoCoerce

NextRace == \E p \in Procs : RaceStart(p) \/ RaceStep(p)

SpecRace == InitRace /\ [][NextRace]_vars

\* One token exchange, under every combination of configured settings.
InitExchange ==
    /\ store = {}
    /\ next_id = 1
    /\ now = 1
    /\ oauth2_enabled \in BOOLEAN
    /\ last = NoRequest
    /\ NoRace
    /\ settings \in [SettingNames -> BOOLEAN]
    /\ NoExchange
    /\ NoAuth
    /\ NoCoerce

NextExchange ==
    \/ ExchangeCall
    \/ TokenReply
    \/ FollowReply
    \/ VerifyReply

SpecExchange == InitExchange /\ [][NextExchange]_vars

\* One request through a resolver, under every combination of the settings
\* the verifier reads, over a table holding one clipboard without an owner.
InitAuth ==
    /\ store = {InitRow(1, <<[expires_at |-> NoTime, user |-> NoneV]>>)}
    /\ next_id = 2
    /\ now = 1
    /\ oauth2_enabled \in BOOLEAN
    /\ last = NoRequest
    /\ NoRace
    /\ settings \in {cfg \in [SettingNames -> BOOLEAN] :
                        \A n \in SettingNames \ VerifierSettings : cfg[n]}
    /\ NoExchange
    /\ NoAuth
    /\ NoCoerce

NextAuth ==
    \/ AuthCall
    \/ UserInfoReply

SpecAuth == InitAuth /\ [][NextAuth]_vars

\* Anonymous callers only: with OAUTH2_ENABLED off get_optional_user resolves
\* every request to no user (the handlers read current_user, never the
\* setting).  The table is empty or holds the only clipboards create_clipboard
\* accepts from an anonymous caller: no owner, an expires_at.
InitAnonymous ==
    /\ store \in {st \in InitStores :
                     \A r \in st : r.user = NoneV /\ r.expires_at # NoTime}
    /\ next_id = Cardinality(store) + 1
    /\ now = 1
    /\ oauth2_enabled = FALSE
    /\ last = NoRequest
    /\ NoRace
    /\ settings = AllConfigured
    /\ NoExchange
    /\ NoAuth
    /\ NoCoerce

NextAnonymous ==
    \/ Create
    \/ Read
    \/ List
    \/ Update
    \/ Delete
    \/ Deliver
    \/ Tick

SpecAnonymous == InitAnonymous /\ [][NextAnonymous]_vars

\* The coercion, over every value of expires_in.
InitCoerce ==
    /\ store = {}
    /\ next_id = 1
    /\ now = 1
    /\ oauth2_enabled = TRUE
    /\ last = NoRequest
    /\ NoRace
    /\ settings = AllConfigured
    /\ NoExchange
    /\ NoAuth
    /\ expires_in \in ExpiresInValues
    /\ coerced = NotCoerced

NextCoerce == Coerce

SpecCoerce == InitCoerce /\ [][NextCoerce]_vars

\* ================================================================== claims
\* A row is public when the table has an is_public column and the row's
\* value is true.
IsPublic(r) == "is_public" \in ClipboardColumns /\ r.is_public

\* expires_at is set and earlier than the current time.
Past(r, t) == r.expires_at # NoTime /\ r.expires_at < t

\* The row the last request addressed, when it is stored.
Target == Lookup(store, last.code)

\* The handler of the last request ran (the resolver let the caller through).
Ran(op) == last.op = op /\ last.authed

\* The last request named an owner that is not one of the caller's own
\* identifiers (a caller without a user has none).
ForeignUser ==
    /\ TruthyStr(last.payload.user)
    /\ (~Authenticated(last.user) \/ last.payload.user \notin {last.user.user_id, last.user.email})

\* C1 (stated as claimed): a read of a stored, non-expired clipboard that has
\* an owner and is not public succeeds exactly for the owner and is Forbidden
\* for every other caller; a read of a public or ownerless one succeeds for
\* every caller.
C1_ReadAccess ==
    \A r \in store :
        (Ran("read") /\ last.code = r.clipboard_id /\ ~Past(r, now)) =>
            IF TruthyStr(r.user) /\ ~IsPublic(r)
            THEN IF Authenticated(last.user) /\ last.user.user_id = r.user
                 THEN last.status = HTTP_200 /\ last.body = {r}
                 ELSE last.status = HTTP_403
            ELSE last.status = HTTP_200 /\ last.body = {r}

\* C2: for a clipboard that has an owner, an update or delete by any caller
\* other than the owner fails Forbidden and changes nothing; an owned
\* clipboard changes only by a successful update from its owner and leaves
\* the table only by a delete from its owner or by the read that finds it
\* expired.
C2_OwnerOnly ==
    [][Idle =>
        \A r \in store : TruthyStr(r.user) =>
            /\ (/\ last'.op \in {"update", "delete"} /\ last'.authed
                /\ last'.code = r.clipboard_id
                /\ last'.user.user_id # r.user)
               => (last'.status = HTTP_403 /\ store' = store)
            /\ r \notin store' =>
                 \/ /\ last'.op = "update" /\ last'.status = HTTP_200
                    /\ last'.code = r.clipboard_id /\ last'.user.user_id = r.user
                    /\ \E u \in store' : u.id = r.id
                 \/ /\ last'.op = "delete" /\ last'.status = HTTP_204
                    /\ last'.code = r.clipboard_id /\ last'.user.user_id = r.user
                    /\ ~\E u \in store' : u.id = r.id
                 \/ /\ last'.op = "read" /\ last'.status = HTTP_410
                    /\ last'.code = r.clipboard_id /\ Past(r, now)
                    /\ ~\E u \in store' : u.id = r.id]_vars

C2_Witness ==
    /\ Ran("update") /\ last.status = HTTP_403
    /\ Authenticated(last.user)
    /\ Cardinality(store) = MaxRows
    /\ \E r \in Target : TruthyStr(r.user) /\ r.user # last.user.user_id

\* C3 (stated as claimed): a create, or an update of a stored clipboard,
\* whose `user` is a non-empty identifier that is not the caller's own
\* user_id or email fails Forbidden.
C3_ForeignUserForbidden ==
    (/\ last.op \in {"create", "update"} /\ last.authed
     /\ ForeignUser
     /\ (last.op = "update" => Target # {}))
    => last.status = HTTP_403

\* C3 (amended): such a request fails and changes nothing: Unauthorized when
\* a caller without a user creates, or updates an ownerless clipboard;
\* Forbidden in every other case.  No request makes a stored owner an
\* identifier that is not the requesting caller's own.
C3_ForeignUserRejected ==
    [][Idle =>
        /\ (/\ last'.op \in {"create", "update"} /\ last'.authed
            /\ ForeignUser'
            /\ (last'.op = "update" => Lookup(store, last'.code) # {}))
           => /\ store' = store
              /\ last'.status =
                   IF /\ ~Authenticated(last'.user)
                      /\ (last'.op = "create"
                          \/ \A r \in Lookup(store, last'.code) : ~TruthyStr(r.user))
                   THEN HTTP_401 ELSE HTTP_403
        /\ \A u \in store' :
              (TruthyStr(u.user) /\ ~\E r \in store : r.id = u.id /\ r.user = u.user)
              => (Authenticated(last'.user)
                  /\ u.user \in {last'.user.user_id, last'.user.email})]_vars

C3_Witness ==
    /\ Ran("update") /\ ForeignUser /\ ~Authenticated(last.user)
    /\ last.status = HTTP_401
    /\ \E r \in Target : ~TruthyStr(r.user)

\* C4 (stated as claimed): a create by a caller without a user that names no
\* owner fails Unauthorized and stores nothing when it has no expires_at, and
\* succeeds, storing the returned clipboard, when expires_at is set.
C4_AnonymousCreate ==
    (Ran("create") /\ ~Authenticated(last.user) /\ ~TruthyStr(last.payload.user)) =>
        IF TruthyTime(last.payload.expires_at)
        THEN /\ last.status = HTTP_201
             /\ \E r \in store : last.body = {r} /\ r.expires_at = last.payload.expires_at
        ELSE last.status = HTTP_401 /\ last.body = {}

\* C5: a read, by any caller, of a stored clipboard whose expires_at is
\* earlier than now fails Gone and deletes exactly that row; a row that left
\* the table never comes back, and every response carries stored rows only,
\* so no later request returns it.
C5_ExpiredReadDeletes ==
    [][Idle =>
        /\ \A r \in store :
              (/\ last'.op = "read" /\ last'.authed
               /\ last'.code = r.clipboard_id /\ Past(r, now))
              => /\ last'.status = HTTP_410
                 /\ store' = store \ {r}
                 /\ Lookup(store', last'.code) = {}
        /\ \A u \in store' : (\E r \in store : r.id = u.id) \/ u.id >= next_id
        /\ next_id' >= next_id
        /\ \A r \in store : r.id < next_id
        /\ last'.body \subseteq store']_vars

C5_Witness ==
    /\ Ran("read") /\ last.status = HTTP_410
    /\ Target = {}
    /\ store # {}

\* C6 (stated as claimed): list_clipboards returns the stored clipboards the
\* caller may see, and only those: the public ones, plus the caller's own.
C6_ListVisibility ==
    Ran("list") =>
        /\ last.status = HTTP_200
        /\ last.body \subseteq
             {r \in store : IsPublic(r)
                            \/ (Authenticated(last.user) /\ r.user = last.user.user_id)}

\* C7: no two stored clipboards share a clipboard_id (or a primary key), and
\* a stored clipboard keeps the clipboard_id it was created with.
C7_ClipboardIdUniqueImmutable ==
    [][/\ \A r1, r2 \in store' :
             (r1.clipboard_id = r2.clipboard_id \/ r1.id = r2.id) => r1 = r2
       /\ \A r \in store, u \in store' :
             r.id = u.id => r.clipboard_id = u.clipboard_id]_vars

C7_Witness ==
    /\ Ran("update") /\ last.status = HTTP_200
    /\ Cardinality(store) = MaxRows
    /\ "user" \in last.payload.fields_set
    /\ \E r \in Target : last.body = {r}

\* C8 (stated as claimed): when two concurrent creates that pass the
\* authorization checks draw the same code first, both end in success, with
\* distinct clipboard_ids, and both records are stored.
C8_RaceBothSucceed ==
    (/\ \A p \in Procs : pc[p] = "done" /\ cres[p].status \notin {HTTP_401, HTTP_403}
     /\ cfirst[1] = cfirst[2])
    => /\ \A p \in Procs : cres[p].status = HTTP_201 /\ cres[p].body \subseteq store
       /\ \A r1 \in cres[1].body, r2 \in cres[2].body :
             r1.clipboard_id # r2.clipboard_id

\* C9 (stated as claimed): create_clipboard makes at most max_attempts
\* attempts; an authorization failure ends it at the first attempt; otherwise
\* it ends in the created record, or in InternalError after max_attempts
\* attempts that all collided, with the table unchanged.
C9_CreateRetryBound ==
    Ran("create") =>
        /\ last.attempts >= 1 /\ last.attempts <= max_attempts
        /\ last.status \in {HTTP_401, HTTP_403} => last.attempts = 1
        /\ last.status \notin {HTTP_401, HTTP_403} =>
              \/ last.status = HTTP_201 /\ last.body \subseteq store /\ last.body # {}
              \/ /\ last.status = HTTP_500 /\ last.attempts = max_attempts
                 /\ \A c \in Codes : Lookup(store, c) # {}

\* A response of a token endpoint that is a redirect.
IsRedirect(response) ==
    response.kind = "response" /\ response.status \in {301, 302, 303, 307, 308}

\* C10: in one token exchange at most two requests go to token endpoints.
\* A redirect with a Location header in answer to the initial POST is
\* followed by exactly one request to the resolved location, a GET after a
\* 303 and otherwise a POST repeating the form; nothing else is followed,
\* and when the follow-up is answered by a redirect the exchange fails.
C10_SingleRedirectHop ==
    /\ Len(xsent) <= 2
    /\ Len(xresps) <= Len(xsent)
    /\ Len(xsent) >= 1 =>
          xsent[1] = [method |-> "POST", url |-> "OAUTH2_TOKEN_URL",
                      data |-> TokenData(xreq, settings)]
    /\ Len(xresps) >= 1 =>
          IF IsRedirect(xresps[1]) /\ xresps[1].location
          THEN /\ Len(xsent) = 2
               /\ xsent[2].url = "location"
               /\ IF xresps[1].status = 303
                  THEN xsent[2].method = "GET" /\ xsent[2].data = NoData
                  ELSE xsent[2].method = "POST" /\ xsent[2].data = xsent[1].data
          ELSE Len(xsent) = 1
    /\ (Len(xresps) = 2 /\ IsRedirect(xresps[2])) =>
          /\ xpc = "done"
          /\ xout.status >= 400
          /\ xout.access_token = NoneV
          /\ xverified = <<>>

C10_Witness ==
    /\ xpc = "done"
    /\ Len(xresps) = 2
    /\ xresps[1].status = 303 /\ xresps[1].location
    /\ IsRedirect(xresps[2]) /\ xresps[2].location
    /\ xsent[2].method = "GET"

\* The verdict of the UserInfo Verifier in a request through a resolver: on
\* the answer received, or without a request when the URL is not configured.
AuthVerdict ==
    OAuth2UserInfoVerifier_verify(settings,
                                  IF aresp = <<>> THEN UserInfoUnreachable ELSE aresp[1])

\* The one request the verifier sends for the credential of the request.
UserInfoCall ==
    [method |-> "GET", url |-> "OAUTH2_USERINFO_URL", bearer |-> areq.credentials]

\* The table SpecAuth starts with: one clipboard without an owner.
OwnerlessTable == {InitRow(1, <<[expires_at |-> NoTime, user |-> NoneV]>>)}

\* C11: the token exchange answers success, or with an access_token, only
\* when the UserInfo Verifier was called once, with exactly the access token
\* of the final token response, and returned a user, who is the user of the
\* response; when the verifier fails, the exchange fails with the verifier's
\* status and detail and carries no access token and no user.
C11_ExchangeSuccessVerified ==
    /\ Len(xverdicts) <= Len(xverified)
    /\ Len(xverified) <= 1
    /\ xverified # <<>> =>
          /\ xresps # <<>>
          /\ xresps[Len(xresps)].body = xverified[1]
    /\ (xout.status = HTTP_200 \/ xout.access_token # NoneV) =>
          /\ xpc = "done"
          /\ xout.status = HTTP_200
          /\ xverified = <<xout.access_token>>
          /\ Len(xverdicts) = 1
          /\ xverdicts[1].ok
          /\ xverdicts[1].user = xout.user
          /\ Authenticated(xout.user)
    /\ \A i \in 1..Len(xverdicts) :
          ~xverdicts[i].ok =>
              /\ xout.status = xverdicts[i].status
              /\ xout.status >= 400
              /\ xout.detail = xverdicts[i].detail
              /\ xout.access_token = NoneV
              /\ xout.user = NoUser

C11_Witness ==
    /\ xpc = "done"
    /\ xout.status = HTTP_200
    /\ Len(xresps) = 2
    /\ xout.access_token = "t1"
    /\ xout.user.user_id = "u1"
    /\ xout.expires_in.outcome = "int"

\* C12: a request through the optional resolver reaches its endpoint with no
\* user, and without a request to the provider, when OAuth2 is disabled or
\* no bearer credential is present; with OAuth2 enabled and a credential it
\* reaches the endpoint with the verifier's user, or ends in the verifier's
\* failure: then the endpoint is not executed (not as an anonymous request
\* either) and the table is as it was.
C12_OptionalResolver ==
    (apc = "done" /\ areq.route = "delete_clipboard") =>
        IF ~oauth2_enabled \/ areq.credentials = NoneV
        THEN /\ acalls = <<>> /\ aresp = <<>>
             /\ aout.ran /\ aout.user = NoUser
        ELSE /\ acalls = IF settings["OAUTH2_USERINFO_URL"] THEN <<UserInfoCall>> ELSE <<>>
             /\ Len(aresp) = Len(acalls)
             /\ IF AuthVerdict.ok
                THEN aout.ran /\ aout.user = AuthVerdict.user /\ Authenticated(aout.user)
                ELSE /\ ~aout.ran
                     /\ aout.status = AuthVerdict.status
                     /\ aout.detail = AuthVerdict.detail
                     /\ aout.user = NoUser
                     /\ store = OwnerlessTable

C12_Witness ==
    /\ apc = "done" /\ areq.route = "delete_clipboard"
    /\ oauth2_enabled /\ areq.credentials # NoneV
    /\ Len(aresp) = 1 /\ aresp[1].status = HTTP_401
    /\ ~aout.ran /\ aout.status = HTTP_401
    /\ store # {}

\* C13: a request through the required resolver fails with status 500, and
\* without a request to the provider, whenever OAuth2 is disabled; with
\* OAuth2 enabled and no bearer credential it fails Unauthorized, again
\* without a request; otherwise it ends in exactly the verifier's user or
\* failure.  The endpoint runs with a user only after one answer of the
\* provider in this request that the verifier accepted.
C13_RequiredResolver ==
    (apc = "done" /\ areq.route = "get_authenticated_user") =>
        /\ IF ~oauth2_enabled
           THEN ~aout.ran /\ aout.status = HTTP_500 /\ acalls = <<>>
           ELSE IF areq.credentials = NoneV
           THEN ~aout.ran /\ aout.status = HTTP_401 /\ acalls = <<>>
           ELSE /\ acalls = IF settings["OAUTH2_USERINFO_URL"] THEN <<UserInfoCall>> ELSE <<>>
                /\ IF AuthVerdict.ok
                   THEN aout.ran /\ aout.status = HTTP_200 /\ aout.user = AuthVerdict.user
                   ELSE /\ ~aout.ran /\ aout.user = NoUser
                        /\ aout.status = AuthVerdict.status
                        /\ aout.detail = AuthVerdict.detail
        /\ aout.ran =>
              /\ Authenticated(aout.user)
              /\ Len(aresp) = 1 /\ Len(acalls) = 1
              /\ aresp[1].kind = "response" /\ aresp[1].status = 200
              /\ aout.user.user_id \in {aresp[1].claims.sub, aresp[1].claims.id,
                                        aresp[1].claims.user_id}

C13_Witness ==
    /\ apc = "done" /\ areq.route = "get_authenticated_user"
    /\ ~oauth2_enabled /\ areq.credentials # NoneV
    /\ aout.status = HTTP_500 /\ ~aout.ran

\* The first of the claims sub, id, user_id that an answer carries (a claim
\* that is empty counts as absent); None when it carries none, or is not a
\* JSON object.
ClaimedIdentifier(answer) ==
    IF answer.body # "object" THEN NoneV
    ELSE IF answer.claims.sub \notin {NoneV, EmptyStr} THEN answer.claims.sub
    ELSE IF answer.claims.id \notin {NoneV, EmptyStr} THEN answer.claims.id
    ELSE answer.claims.user_id

\* C14 (stated as claimed): verify maps every outcome of the provider to one
\* result, in this order: userinfo URL unset: status 500 and no request;
\* network failure: 502; status 401: 401; another non-success status: 502;
\* a body that is not JSON: 502; no sub/id/user_id claim: 401; audience
\* configured and aud present but different: 401; issuer configured and iss
\* present but different: 401; otherwise the user whose user_id is the first
\* present of sub, id, user_id.
C14_VerifyMapping ==
    (apc = "done" /\ oauth2_enabled /\ areq.credentials # NoneV) =>
        IF ~settings["OAUTH2_USERINFO_URL"]
        THEN acalls = <<>> /\ ~aout.ran /\ aout.status = HTTP_500
        ELSE /\ Len(acalls) = 1 /\ Len(aresp) = 1
             /\ LET answer == aresp[1] IN
                IF answer.kind = "HTTPError" THEN ~aout.ran /\ aout.status = HTTP_502
                ELSE IF answer.status = 401 THEN ~aout.ran /\ aout.status = HTTP_401
                ELSE IF answer.status < 200 \/ answer.status > 299
                THEN ~aout.ran /\ aout.status = HTTP_502
                ELSE IF answer.body = "notjson" THEN ~aout.ran /\ aout.status = HTTP_502
                ELSE IF ClaimedIdentifier(answer) \in {NoneV, EmptyStr}
                THEN ~aout.ran /\ aout.status = HTTP_401
                ELSE IF /\ settings["OAUTH2_AUDIENCE"]
                        /\ answer.claims.aud \notin {NoneV, "OAUTH2_AUDIENCE"}
                THEN ~aout.ran /\ aout.status = HTTP_401
                ELSE IF /\ settings["OAUTH2_ISSUER"]
                        /\ answer.claims.iss \notin {NoneV, "OAUTH2_ISSUER"}
                THEN ~aout.ran /\ aout.status = HTTP_401
                ELSE aout.ran /\ aout.user.user_id = ClaimedIdentifier(answer)

\* C15 (stated as claimed): the final response of the token endpoint is
\* mapped as: status 401: 401; another non-success status: 502; success with
\* a body that is not JSON: 502; JSON without an access_token: 502; and a
\* redirect without a Location in answer to the initial POST: 502 with no
\* follow-up request.  In none of these cases is the verifier called.
C15_FinalResponseMapping ==
    (xpc \in {"await_verify", "done"} /\ xresps # <<>>) =>
        LET final == xresps[Len(xresps)] IN
        IF Len(xresps) = 1 /\ final.kind = "response"
           /\ final.status \in {301, 302, 303, 307, 308}
        THEN /\ ~final.location
             /\ xout.status = HTTP_502 /\ Len(xsent) = 1 /\ xverified = <<>>
        ELSE IF final.kind # "response" THEN xverified = <<>>
        ELSE IF final.status = 401 THEN xout.status = HTTP_401 /\ xverified = <<>>
        ELSE IF final.status < 200 \/ final.status > 299
        THEN xout.status = HTTP_502 /\ xverified = <<>>
        ELSE IF final.body = "notjson" THEN xout.status = HTTP_502 /\ xverified = <<>>
        ELSE IF final.body \in {"notobject", "notoken"}
        THEN xout.status = HTTP_502 /\ xverified = <<>>
        ELSE xverified = <<final.body>>

\* C16 (stated as claimed): the coercion of expires_in never raises: a
\* number yields its integer value, a string of digits the integer it
\* spells, and anything else (another string, null, an absent key) absent.
C16_ExpiresInCoercion ==
    coerced # NotCoerced =>
        /\ coerced.outcome # "raise"
        /\ expires_in.type = "int" => coerced = Coerced("int", expires_in.num, "")
        /\ (expires_in.type = "float" /\ expires_in.num % 2 = 0) =>
              coerced = Coerced("int", expires_in.num \div 2, "")
        /\ expires_in = JsonValue("str", 0, <<"1", "2">>) => coerced = Coerced("int", 12, "")
        /\ expires_in = JsonValue("str", 0, <<"a">>) => coerced.outcome = "None"
        /\ expires_in.type \in {"absent", "NoneType"} => coerced.outcome = "None"

\* C17: a delete of a stored clipboard that has no owner succeeds for every
\* caller, a caller without a user included, and removes exactly that row;
\* a delete of a code that is not stored fails NotFound and changes nothing.
C17_DeleteOwnerless ==
    [][(Idle /\ last'.op = "delete" /\ last'.authed) =>
          IF \A r \in store : r.clipboard_id # last'.code
          THEN last'.status = HTTP_404 /\ store' = store
          ELSE \A r \in store :
                  (r.clipboard_id = last'.code /\ r.user \in {NoneV, EmptyStr}) =>
                      /\ last'.status = HTTP_204
                      /\ store' = store \ {r}
                      /\ Cardinality(store') = Cardinality(store) - 1]_vars

C17_Witness ==
    /\ Ran("delete") /\ last.status = HTTP_204
    /\ ~Authenticated(last.user)
    /\ last.owner = NoneV
    /\ Target = {}
    /\ \E r \in store : r.user = NoneV

\* The fields of a request body the client sent.
Sent(field) == field \in last'.payload.fields_set

\* C18 (stated as claimed): a successful update changes only the fields
\* present in the payload: every field of the target absent from it, and
\* every field of every other clipboard, keeps its value.
C18_UpdateFrame ==
    [][(Idle /\ last'.op = "update" /\ last'.status = HTTP_200) =>
          /\ Cardinality(store') = Cardinality(store)
          /\ \A r \in store :
                IF r.clipboard_id # last'.code THEN r \in store'
                ELSE \E u \in store' :
                        /\ u.id = r.id /\ u.clipboard_id = r.clipboard_id
                        /\ u.updated_at = r.updated_at
                        /\ ~Sent("content") => u.content = r.content
                        /\ ~Sent("expires_at") => u.expires_at = r.expires_at
                        /\ ~Sent("user") => u.user = r.user]_vars

\* C18 (amended): a successful update changes, of the fields a payload can
\* carry, only those present in it, and no other clipboard; updated_at, which
\* no payload carries, becomes the time of the update when the update gave
\* some column a new value, and keeps its value otherwise.
C18_UpdateFrameButUpdatedAt ==
    [][(Idle /\ last'.op = "update" /\ last'.status = HTTP_200) =>
          /\ Cardinality(store') = Cardinality(store)
          /\ \A r \in store :
                IF r.clipboard_id # last'.code THEN r \in store'
                ELSE \E u \in store' :
                        /\ u.id = r.id /\ u.clipboard_id = r.clipboard_id
                        /\ ~Sent("content") => u.content = r.content
                        /\ ~Sent("expires_at") => u.expires_at = r.expires_at
                        /\ ~Sent("user") => u.user = r.user
                        /\ u.updated_at =
                             IF <<u.content, u.expires_at, u.user>>
                                = <<r.content, r.expires_at, r.user>>
                             THEN r.updated_at ELSE now]_vars

C18_Witness ==
    /\ Ran("update") /\ last.status = HTTP_200
    /\ last.payload.fields_set = {"content"}
    /\ Cardinality(store) = MaxRows
    /\ \E r \in Target :
          /\ r.updated_at = now
          /\ r.expires_at # NoTime
          /\ r.user # NoneV

\* C19: a read of an expired clipboard that has an owner and is not public,
\* by a caller who is not the owner (or has no user), fails Gone, not
\* Forbidden, and deletes the row; a read answers Forbidden only for a
\* stored clipboard that is not expired.
C19_ExpiryBeforeVisibility ==
    [][(Idle /\ last'.op = "read" /\ last'.authed) =>
          /\ \A r \in store :
                (/\ r.clipboard_id = last'.code
                 /\ Past(r, now)
                 /\ r.user \notin {NoneV, EmptyStr} /\ ~IsPublic(r)
                 /\ last'.user.user_id # r.user)
                => /\ last'.status = HTTP_410
                   /\ store' = store \ {r}
          /\ last'.status = HTTP_403 =>
                \E r \in store : r.clipboard_id = last'.code /\ ~Past(r, now)]_vars

C19_Witness ==
    /\ Ran("read") /\ last.status = HTTP_410
    /\ last.owner = "u1"
    /\ last.user.user_id = "u2"
    /\ Target = {}

\* C20: list_clipboards leaves the table as it is, the rows with expires_at
\* in the past included; such a row stays stored until a read or a delete
\* that addresses it.
C20_ListNoSweep ==
    [][Idle =>
          /\ (last'.op = "list" => store' = store)
          /\ \A r \in store :
                (Past(r, now) /\ \A u \in store' : u.id # r.id) =>
                    /\ last'.op \in {"read", "delete"}
                    /\ last'.authed
                    /\ last'.code = r.clipboard_id]_vars

C20_Witness ==
    /\ Ran("list")
    /\ Cardinality(store) = MaxRows
    /\ \A r \in store : Past(r, now)

\* C21: every stored owner is absent or a user_id, never an email; a request
\* gives a clipboard a new owner only when it is a create or an update by an
\* authenticated caller who names their own user_id or email, and the owner
\* stored is that caller's user_id; update and delete, which compare the
\* owner with user_id, recognise the owner: their delete succeeds, and their
\* update fails only for naming another user.
C21_OwnerIsUserId ==
    [][Idle =>
          /\ \A r \in store \cup store' : r.user \in {NoneV} \cup UserIds
          /\ \A u \in store' :
                (u.user # NoneV /\ ~\E r \in store : r.id = u.id /\ r.user = u.user) =>
                    /\ last'.op \in {"create", "update"}
                    /\ last'.user # NoUser
                    /\ u.user = last'.user.user_id
                    /\ last'.payload.user \notin {NoneV, EmptyStr}
                    /\ last'.payload.user \in {last'.user.user_id, last'.user.email}
          /\ \A r \in store :
                (/\ last'.authed /\ last'.code = r.clipboard_id
                 /\ r.user # NoneV /\ r.user = last'.user.user_id) =>
                    /\ last'.op = "delete" => last'.status = HTTP_204
                    /\ last'.op = "update" => (last'.status = HTTP_200 \/ ForeignUser')]_vars

C21_Witness ==
    /\ Ran("update") /\ last.status = HTTP_200
    /\ last.owner = NoneV
    /\ last.user = U1
    /\ last.payload.user = "e1"
    /\ \E r \in Target : r.user = "u1"

====
